---- MODULE Spec2Model ----
(***************************************************************************)
(* A model of the exported-variable registry (package expvar): the atomic  *)
(* scalars Int and Float, the sorted concurrent Map and the root Bucket.   *)
(*                                                                         *)
(* Goroutines are the threads 1..NumThreads.  Every access to a sync.Map   *)
(* or to an atomic word is one step; a section that runs under the         *)
(* exclusive key-index lock and has a single effect other goroutines can   *)
(* see (addKey, Delete, the tail of Publish) is one step guarded by the    *)
(* lock being free.  Init and Do keep the lock over several steps.         *)
(*                                                                         *)
(* Keys and names are the numbers 1..NumKeys; they stand for strings whose *)
(* lexicographic order is the order of the numbers ("a" < "b" < ...).      *)
(* A Var is a reference: the index of an object in heap.  Nil is Go's nil. *)
(* A panic ends the goroutine (pc = "panic") after its deferred unlocks.   *)
(***************************************************************************)
EXTENDS Integers, Sequences, FiniteSets, TLC

NumThreads == 2
NumKeys == 2
MaxOps == 3

Nil == 0

Threads == 1..NumThreads
Keys == 1..NumKeys

VARIABLES
    heap,       \* the objects: heap[o] = [kind, val]
    m,          \* Map.m: key -> Var or Nil
    keys,       \* Map.keys: the sorted key index
    keysMu,     \* Map.keysMu: [w: the writer or Nil, r: the set of readers]
    vars,       \* Bucket.vars: name -> Var or Nil
    varKeys,    \* Bucket.varKeys
    varKeysMu,  \* Bucket.varKeysMu
    pc,         \* each goroutine's position
    loc,        \* each goroutine's arguments, locals and last result
    ops,        \* calls started so far
    spawned,    \* goroutines started so far: 1..spawned have made a call
    hist        \* what the callers asked for (history, read by no operation)

vars_ ==
    <<heap, m, keys, keysMu, vars, varKeys, varKeysMu, pc, loc, ops, spawned, hist>>

mapVars == <<m, keys, keysMu>>
bucketVars == <<vars, varKeys, varKeysMu>>

(***************************************************************************)
(* Helpers on sequences and the two stores.                                *)
(***************************************************************************)
Range(s) == {s[i] : i \in 1..Len(s)}

Count(s, k) == Cardinality({i \in 1..Len(s) : s[i] = k})

IsSorted(s) == \A i \in 1..(Len(s) - 1) : s[i] < s[i + 1]

\* sort.SearchStrings: the smallest index i (from 0) with s[i+1] >= key, or Len(s)
SearchStrings(s, key) ==
    LET hits == {i \in 0..(Len(s) - 1) : s[i + 1] >= key}
    IN  IF hits = {} THEN Len(s)
        ELSE CHOOSE i \in hits : \A j \in hits : i <= j

\* (mutant) the shift and the store one place too far to the right
InsertAt_OffByOne(s, i, key) ==
    SubSeq(s, 1, i + 1) \o <<key>> \o SubSeq(s, i + 2, Len(s))

\* append(s, ""); copy(s[i+1:], s[i:]); s[i] = key   (i counts from 0)
InsertAt(s, i, key) == SubSeq(s, 1, i) \o <<key>> \o SubSeq(s, i + 1, Len(s))

\* append(s[:i], s[i+1:]...)   (i counts from 0)
RemoveAt(s, i) == SubSeq(s, 1, i) \o SubSeq(s, i + 2, Len(s))

Present(store) == {k \in Keys : store[k] # Nil}

EmptyStore == [k \in Keys |-> Nil]

FreeMu == [w |-> Nil, r |-> {}]

\* (mutant) Lock that does not wait for the readers
CanLock_IgnoresReaders(mu) == mu.w = Nil

\* sync.RWMutex: Lock is granted when nobody holds the lock
CanLock(mu) == mu.w = Nil /\ mu.r = {}

\* sync.RWMutex: RLock is granted when no writer holds the lock
CanRLock(mu) == mu.w = Nil

\* the 64-bit word of all zero bits, as [sign, exp, frac]
ZeroWord == [sign |-> 0, exp |-> 0, frac |-> 0]

\* a goroutine's arguments (op, key, av, delta), locals (i, dup, cur, todo, j; b and
\* first of Map.String), what its visitor was called with (visited), its result
\* (ret), and history: the index, the keys of the store and the store as they stood
\* when Do or Init took the lock (atKeys, atStore, atM), and the compare-and-swaps
\* of this Float.Add that failed (tries)
Loc0 ==
    [op |-> "none", key |-> Nil, av |-> Nil, delta |-> 0, i |-> Nil,
     dup |-> FALSE, cur |-> ZeroWord, todo |-> {}, j |-> 0, visited |-> <<>>,
     ret |-> Nil, atKeys |-> <<>>, atStore |-> {}, atM |-> EmptyStore,
     b |-> <<>>, first |-> FALSE, tries |-> 0]

\* per key: the Var of the latest Set call, the goroutines that called Set, the
\* number of Set calls, the sum of the deltas of the Add calls; for the Float under
\* test: its first value, the sum of the deltas of the Add calls, the number of its
\* Add calls and of its Set calls; per name: the
\* Publish calls that registered it, those that panicked, the Var registered
Hist0 ==
    [lastSet |-> [k \in Keys |-> Nil],
     writers |-> [k \in Keys |-> {}],
     nSets |-> [k \in Keys |-> 0],
     adds |-> [k \in Keys |-> 0],
     fInit |-> 0,
     fSum |-> 0,
     fAdds |-> 0,
     fSets |-> 0,
     pubOK |-> [k \in Keys |-> 0],
     pubPanic |-> [k \in Keys |-> 0],
     winner |-> [k \in Keys |-> Nil]]

FracBits == 8

RECURSIVE Log2(_)
Log2(n) == IF n <= 1 THEN 0 ELSE 1 + Log2(n \div 2)

Abs(x) == IF x < 0 THEN -x ELSE x

\* math.Float64bits of a whole number x, |x| < 2^(FracBits+1): the IEEE 754 word as
\* [sign, exp, frac], frac holding the top FracBits bits of the 52-bit fraction
\* (the bits below them are 0 for such an x)
Float64bits(x) ==
    IF x = 0 THEN [sign |-> 0, exp |-> 0, frac |-> 0]
    ELSE LET e == Log2(Abs(x))
         IN  [sign |-> IF x < 0 THEN 1 ELSE 0,
              exp |-> 1023 + e,
              frac |-> (Abs(x) - 2 ^ e) * 2 ^ (FracBits - e)]

\* math.Float64frombits
Float64frombits(b) ==
    IF b.exp = 0 THEN 0
    ELSE LET e == b.exp - 1023
             a == 2 ^ e + (b.frac \div 2 ^ (FracBits - e))
         IN  IF b.sign = 1 THEN -a ELSE a

\* new(Int), new(Float): the zero values
NewInt0 == [kind |-> "Int", val |-> 0]

NewFloat0 == [kind |-> "Float", val |-> Float64bits(0)]

\* new(String), new(Map)
NewString0 == [kind |-> "String", val |-> ""]

NewMap0 == [kind |-> "Map", val |-> <<>>]

New0(kind) ==
    CASE kind = "Int" -> NewInt0
      [] kind = "Float" -> NewFloat0
      [] kind = "String" -> NewString0
      [] kind = "Map" -> NewMap0

\* the Vars the callers hold before the first call: a String and an Int
CallerVars == <<[kind |-> "String", val |-> "x"], NewInt0>>

KindOf(o) == IF o = Nil THEN "nil" ELSE heap[o].kind

Busy(t) == pc[t] \notin {"idle", "panic"}

AllIdle == \A t \in Threads : ~Busy(t)

\* a call starts: the goroutine is between calls and the budget of calls is not spent.
\* Goroutines are numbered in the order of their first call.
Start(t) ==
    /\ pc[t] = "idle"
    /\ ops < MaxOps
    /\ ops' = ops + 1
    /\ t <= spawned + 1
    /\ spawned' = IF t > spawned THEN t ELSE spawned

\* a call returns: its locals are gone
Return(t) ==
    /\ pc' = [pc EXCEPT ![t] = "idle"]
    /\ loc' = [loc EXCEPT ![t] = Loc0]

Goto(t, label) == pc' = [pc EXCEPT ![t] = label]

Args(op, key, av, delta) ==
    [Loc0 EXCEPT !.op = op, !.key = key, !.av = av, !.delta = delta]

(***************************************************************************)
(* Map.Get: one Load.  The result stays in loc until the next call.        *)
(***************************************************************************)
MapGet(key) == m[key]

Get(t, key) ==
    /\ Start(t)
    /\ loc' = [loc EXCEPT ![t] = [Args("Get", key, Nil, 0) EXCEPT !.ret = MapGet(key)]]
    /\ UNCHANGED <<heap, mapVars, bucketVars, pc>>

(***************************************************************************)
(* Map.addKey: runs under keysMu.Lock                                      *)
(***************************************************************************)
\* (mutant) addKey that appends a new key instead of inserting it in place
addKeyInto_Appends(s, key) == IF key \in Range(s) THEN s ELSE Append(s, key)

addKeyInto(s, key) ==
    LET i == SearchStrings(s, key)
    IN  IF i >= Len(s) THEN Append(s, key)
        ELSE IF s[i + 1] # key THEN InsertAt(s, i, key)
        ELSE s

addKey(t) ==
    /\ pc[t] = "addKey"
    /\ CanLock(keysMu)
    /\ keys' = addKeyInto(keys, loc[t].key)
    /\ CASE loc[t].op = "Set" -> Return(t)
         [] loc[t].op = "Add" -> Goto(t, "Add_apply") /\ UNCHANGED loc
         [] loc[t].op = "AddFloat" -> Goto(t, "AddFloat_apply") /\ UNCHANGED loc
    /\ UNCHANGED <<heap, m, keysMu, bucketVars, ops, spawned, hist>>

(***************************************************************************)
(* Map.Set                                                                 *)
(***************************************************************************)
\* the call and its first step: if _, ok := v.m.Load(key); !ok { ... }
Set(t, key, av) ==
    /\ Start(t)
    /\ Goto(t, IF m[key] = Nil THEN "Set_LoadOrStore" ELSE "Set_Store")
    /\ loc' = [loc EXCEPT ![t] = Args("Set", key, av, 0)]
    /\ UNCHANGED <<heap, mapVars, bucketVars>>

\* (mutant) Set that calls addKey whether or not it won the LoadOrStore
Set_LoadOrStore_AlwaysAddKey(t) ==
    /\ pc[t] = "Set_LoadOrStore"
    /\ m' = IF m[loc[t].key] = Nil THEN [m EXCEPT ![loc[t].key] = loc[t].av] ELSE m
    /\ loc' = [loc EXCEPT ![t].dup = (m[loc[t].key] # Nil)]
    /\ Goto(t, "addKey")
    /\ UNCHANGED <<heap, keys, keysMu, bucketVars, ops, spawned, hist>>

\* if _, dup := v.m.LoadOrStore(key, av); !dup { v.addKey(key); return }
Set_LoadOrStore(t) ==
    /\ pc[t] = "Set_LoadOrStore"
    /\ IF m[loc[t].key] = Nil
       THEN /\ m' = [m EXCEPT ![loc[t].key] = loc[t].av]
            /\ loc' = [loc EXCEPT ![t].dup = FALSE]
            /\ Goto(t, "addKey")
       ELSE /\ m' = m
            /\ loc' = [loc EXCEPT ![t].dup = TRUE]
            /\ Goto(t, "Set_Store")
    /\ UNCHANGED <<heap, keys, keysMu, bucketVars, ops, spawned, hist>>

\* (mutant) Set that returns without the final Store
Set_Store_Skipped(t) ==
    /\ pc[t] = "Set_Store"
    /\ Return(t)
    /\ UNCHANGED <<heap, mapVars, bucketVars, ops, spawned, hist>>

\* (mutant) Set that replaces a value under the index lock
Set_Store_Locks(t) ==
    /\ pc[t] = "Set_Store"
    /\ CanLock(keysMu)
    /\ m' = [m EXCEPT ![loc[t].key] = loc[t].av]
    /\ Return(t)
    /\ UNCHANGED <<heap, keys, keysMu, bucketVars, ops, spawned, hist>>

\* v.m.Store(key, av)
Set_Store(t) ==
    /\ pc[t] = "Set_Store"
    /\ m' = [m EXCEPT ![loc[t].key] = loc[t].av]
    /\ Return(t)
    /\ UNCHANGED <<heap, keys, keysMu, bucketVars, ops, spawned, hist>>

(***************************************************************************)
(* Int.Add and Map.Add                                                     *)
(***************************************************************************)
\* atomic.AddInt64(&v.i, delta)
IntAdd(h, o, delta) == [h EXCEPT ![o].val = @ + delta]

\* the call and its first step: i, ok := v.m.Load(key)
Add(t, key, delta) ==
    /\ Start(t)
    /\ Goto(t, IF m[key] = Nil THEN "Add_LoadOrStore" ELSE "Add_apply")
    /\ loc' = [loc EXCEPT ![t] = [Args("Add", key, Nil, delta) EXCEPT !.i = m[key]]]
    /\ UNCHANGED <<heap, mapVars, bucketVars>>

\* (mutant) Add that keeps its own new Int when it loses the LoadOrStore
Add_LoadOrStore_KeepsOwn(t) ==
    /\ pc[t] = "Add_LoadOrStore"
    /\ heap' = Append(heap, NewInt0)
    /\ IF m[loc[t].key] = Nil
       THEN /\ m' = [m EXCEPT ![loc[t].key] = Len(heap) + 1]
            /\ loc' = [loc EXCEPT ![t].i = Len(heap) + 1, ![t].dup = FALSE]
            /\ Goto(t, "addKey")
       ELSE /\ m' = m
            /\ loc' = [loc EXCEPT ![t].i = Len(heap) + 1, ![t].dup = TRUE]
            /\ Goto(t, "Add_apply")
    /\ UNCHANGED <<keys, keysMu, bucketVars, ops, spawned, hist>>

\* i, dup = v.m.LoadOrStore(key, new(Int)); if !dup { v.addKey(key) }
\* (the new Int of a call that loses is garbage and gets no place in heap)
Add_LoadOrStore(t) ==
    /\ pc[t] = "Add_LoadOrStore"
    /\ IF m[loc[t].key] = Nil
       THEN /\ heap' = Append(heap, NewInt0)
            /\ m' = [m EXCEPT ![loc[t].key] = Len(heap) + 1]
            /\ loc' = [loc EXCEPT ![t].i = Len(heap) + 1, ![t].dup = FALSE]
            /\ Goto(t, "addKey")
       ELSE /\ UNCHANGED <<heap, m>>
            /\ loc' = [loc EXCEPT ![t].i = m[loc[t].key], ![t].dup = TRUE]
            /\ Goto(t, "Add_apply")
    /\ UNCHANGED <<keys, keysMu, bucketVars, ops, spawned, hist>>

\* (mutant) Add that puts a new Int in the place of a Var that is not an Int
Add_apply_Replaces(t) ==
    /\ pc[t] = "Add_apply"
    /\ IF KindOf(loc[t].i) = "Int"
       THEN /\ heap' = IntAdd(heap, loc[t].i, loc[t].delta)
            /\ m' = m
       ELSE /\ heap' = Append(heap, [kind |-> "Int", val |-> loc[t].delta])
            /\ m' = [m EXCEPT ![loc[t].key] = Len(heap) + 1]
    /\ Return(t)
    /\ UNCHANGED <<keys, keysMu, bucketVars, ops, spawned, hist>>

\* if iv, ok := i.(*Int); ok { iv.Add(delta) }
Add_apply(t) ==
    /\ pc[t] = "Add_apply"
    /\ heap' = IF KindOf(loc[t].i) = "Int"
               THEN IntAdd(heap, loc[t].i, loc[t].delta)
               ELSE heap
    /\ Return(t)
    /\ UNCHANGED <<mapVars, bucketVars, ops, spawned, hist>>

(***************************************************************************)
(* Float.Add: the load, compute, compare-and-swap loop on the Float loc.i  *)
(***************************************************************************)
\* the call, on the Float o
FloatAdd(t, o, delta) ==
    /\ Start(t)
    /\ Goto(t, "Float_Load")
    /\ loc' = [loc EXCEPT ![t] = [Args("Float.Add", Nil, Nil, delta) EXCEPT !.i = o]]
    /\ UNCHANGED <<heap, mapVars, bucketVars>>

\* cur := atomic.LoadUint64(&v.f)
Float_Load(t) ==
    /\ pc[t] = "Float_Load"
    /\ loc' = [loc EXCEPT ![t].cur = heap[loc[t].i].val]
    /\ Goto(t, "Float_CAS")
    /\ UNCHANGED <<heap, mapVars, bucketVars, ops, spawned, hist>>

\* (mutant) a plain store in place of the compare-and-swap
CompareAndSwap_Stores(word, cur, nxt) == <<nxt, TRUE>>

\* atomic.CompareAndSwapUint64(&v.f, cur, nxt): the word after it, and whether it swapped
CompareAndSwap(word, cur, nxt) == IF word = cur THEN <<nxt, TRUE>> ELSE <<word, FALSE>>

\* (mutant) a loop that tries the compare-and-swap again with the word it loaded
\* before the loop
Float_CAS_NoReload(t) ==
    /\ pc[t] = "Float_CAS"
    /\ LET curVal == Float64frombits(loc[t].cur)
           nxtVal == curVal + loc[t].delta
           nxt == Float64bits(nxtVal)
           cas == CompareAndSwap(heap[loc[t].i].val, loc[t].cur, nxt)
       IN  /\ heap' = [heap EXCEPT ![loc[t].i].val = cas[1]]
           /\ IF cas[2]
              THEN Return(t)
              ELSE UNCHANGED pc /\ loc' = [loc EXCEPT ![t].tries = @ + 1]
    /\ UNCHANGED <<mapVars, bucketVars, ops, spawned, hist>>

\* curVal := Float64frombits(cur); nxtVal := curVal + delta; nxt := Float64bits(nxtVal)
\* if atomic.CompareAndSwapUint64(&v.f, cur, nxt) { return }
Float_CAS(t) ==
    /\ pc[t] = "Float_CAS"
    /\ LET curVal == Float64frombits(loc[t].cur)
           nxtVal == curVal + loc[t].delta
           nxt == Float64bits(nxtVal)
           cas == CompareAndSwap(heap[loc[t].i].val, loc[t].cur, nxt)
       IN  /\ heap' = [heap EXCEPT ![loc[t].i].val = cas[1]]
           /\ IF cas[2]
              THEN Return(t)
              ELSE Goto(t, "Float_Load")
                   /\ loc' = [loc EXCEPT ![t].cur = ZeroWord, ![t].tries = @ + 1]
    /\ UNCHANGED <<mapVars, bucketVars, ops, spawned, hist>>

\* Float.Set, on the Float o: atomic.StoreUint64(&v.f, math.Float64bits(value))
FloatSet(t, o, value) ==
    /\ Start(t)
    /\ heap' = [heap EXCEPT ![o].val = Float64bits(value)]
    /\ loc' = [loc EXCEPT ![t] = [Args("Float.Set", Nil, Nil, 0) EXCEPT !.i = o]]
    /\ UNCHANGED <<mapVars, bucketVars, pc>>

(***************************************************************************)
(* Map.AddFloat                                                            *)
(***************************************************************************)
\* the call and its first step: i, ok := v.m.Load(key)
AddFloat(t, key, delta) ==
    /\ Start(t)
    /\ Goto(t, IF m[key] = Nil THEN "AddFloat_LoadOrStore" ELSE "AddFloat_apply")
    /\ loc' = [loc EXCEPT ![t] = [Args("AddFloat", key, Nil, delta) EXCEPT !.i = m[key]]]
    /\ UNCHANGED <<heap, mapVars, bucketVars>>

\* i, dup = v.m.LoadOrStore(key, new(Float)); if !dup { v.addKey(key) }
AddFloat_LoadOrStore(t) ==
    /\ pc[t] = "AddFloat_LoadOrStore"
    /\ IF m[loc[t].key] = Nil
       THEN /\ heap' = Append(heap, NewFloat0)
            /\ m' = [m EXCEPT ![loc[t].key] = Len(heap) + 1]
            /\ loc' = [loc EXCEPT ![t].i = Len(heap) + 1, ![t].dup = FALSE]
            /\ Goto(t, "addKey")
       ELSE /\ UNCHANGED <<heap, m>>
            /\ loc' = [loc EXCEPT ![t].i = m[loc[t].key], ![t].dup = TRUE]
            /\ Goto(t, "AddFloat_apply")
    /\ UNCHANGED <<keys, keysMu, bucketVars, ops, spawned, hist>>

\* if iv, ok := i.(*Float); ok { iv.Add(delta) }
AddFloat_apply(t) ==
    /\ pc[t] = "AddFloat_apply"
    /\ IF KindOf(loc[t].i) = "Float"
       THEN Goto(t, "Float_Load") /\ UNCHANGED loc
       ELSE Return(t)
    /\ UNCHANGED <<heap, mapVars, bucketVars, ops, spawned, hist>>

(***************************************************************************)
(* Map.Delete: runs under keysMu.Lock                                      *)
(***************************************************************************)
\* the call: the goroutine is about to take the lock
Delete(t, key) ==
    /\ Start(t)
    /\ Goto(t, "Delete_Lock")
    /\ loc' = [loc EXCEPT ![t] = Args("Delete", key, Nil, 0)]
    /\ UNCHANGED <<heap, mapVars, bucketVars>>

DeleteFrom(s, store, key) ==
    LET i == SearchStrings(s, key)
    IN  IF i < Len(s) /\ key = s[i + 1]
        THEN <<RemoveAt(s, i), [store EXCEPT ![key] = Nil]>>
        ELSE <<s, store>>

Delete_Lock(t) ==
    /\ pc[t] = "Delete_Lock"
    /\ CanLock(keysMu)
    /\ keys' = DeleteFrom(keys, m, loc[t].key)[1]
    /\ m' = DeleteFrom(keys, m, loc[t].key)[2]
    /\ Return(t)
    /\ UNCHANGED <<heap, keysMu, bucketVars, ops, spawned, hist>>

(***************************************************************************)
(* Map.Init: holds keysMu.Lock while it ranges over the store.  Range      *)
(* reflects, for each key, its mapping at some moment of the call: the     *)
(* keys are looked at one by one, in any order.                            *)
(***************************************************************************)
Init(t) ==
    /\ Start(t)
    /\ Goto(t, "Init_Lock")
    /\ loc' = [loc EXCEPT ![t] = Args("Init", Nil, Nil, 0)]
    /\ UNCHANGED <<heap, mapVars, bucketVars>>

\* v.keysMu.Lock(); v.keys = v.keys[:0]
Init_Lock(t) ==
    /\ pc[t] = "Init_Lock"
    /\ CanLock(keysMu)
    /\ keysMu' = [keysMu EXCEPT !.w = t]
    /\ keys' = <<>>
    /\ loc' = [loc EXCEPT ![t].todo = Keys, ![t].atM = m]
    /\ Goto(t, "Init_Range")
    /\ UNCHANGED <<heap, m, bucketVars, ops, spawned, hist>>

\* v.m.Range(func(k, _) bool { v.m.Delete(k); return true }); the deferred Unlock
Init_Range(t) ==
    /\ pc[t] = "Init_Range"
    /\ IF loc[t].todo = {}
       THEN /\ keysMu' = [keysMu EXCEPT !.w = Nil]
            /\ Return(t)
            /\ m' = m
       ELSE \E k \in loc[t].todo :
                /\ m' = [m EXCEPT ![k] = Nil]
                /\ loc' = [loc EXCEPT ![t].todo = @ \ {k}]
                /\ UNCHANGED <<keysMu, pc>>
    /\ UNCHANGED <<heap, keys, bucketVars, ops, spawned, hist>>

(***************************************************************************)
(* Map.Do: holds keysMu.RLock over the walk.  The visitor records what it  *)
(* is called with.                                                         *)
(***************************************************************************)
Do(t) ==
    /\ Start(t)
    /\ Goto(t, "Do_RLock")
    /\ loc' = [loc EXCEPT ![t] = Args("Do", Nil, Nil, 0)]
    /\ UNCHANGED <<heap, mapVars, bucketVars>>

\* what Map.String writes to its strings.Builder b, piece by piece: "{" and "}",
\* the separator ", ", and per entry the quoted key, ": " and the marshalled value
Open == <<"{">>

Close == <<"}">>

Sep == <<", ">>

Item(k, text) == <<"kv", k, text>>

\* json.Marshal(kv.Value).  A Func has no MarshalJSON and is a func: an error.  Int,
\* Float and String marshal their value (the text is modelled by the kind and the
\* value; NaN and the infinities, which fail, are outside the model's Floats).  A
\* Map has no MarshalJSON and no exported field: "{}".
Marshal(h, o) ==
    CASE h[o].kind = "Func" -> [err |-> TRUE, text |-> <<>>]
      [] h[o].kind = "Float" ->
            [err |-> FALSE, text |-> <<"Float", Float64frombits(h[o].val)>>]
      [] h[o].kind = "Map" -> [err |-> FALSE, text |-> <<"Map", "{}">>]
      [] OTHER -> [err |-> FALSE, text |-> <<h[o].kind, h[o].val>>]

\* the visitor of Map.String, called with (k, o), on the locals l:
\* if !first { ", " }; val, err := json.Marshal(kv.Value); if err != nil { return }
\* "%q: " kv.Key; b.Write(val); first = false
StringVisitor(l, h, k, o) ==
    LET b1 == IF l.first THEN l.b ELSE Append(l.b, Sep)
        val == Marshal(h, o)
    IN  IF val.err
        THEN [l EXCEPT !.b = b1]
        ELSE [l EXCEPT !.b = Append(b1, Item(k, val.text)), !.first = FALSE]

\* the visitor of the call: that of Map.String, or the caller's, which only records
Visitor(l, h, k, o) == IF l.op = "String" THEN StringVisitor(l, h, k, o) ELSE l

\* Map.String: var b strings.Builder; "{"; first := true; v.Do(func ...)
String(t) ==
    /\ Start(t)
    /\ Goto(t, "Do_RLock")
    /\ loc' = [loc EXCEPT ![t] =
                 [Args("String", Nil, Nil, 0) EXCEPT !.b = <<Open>>, !.first = TRUE]]
    /\ UNCHANGED <<heap, mapVars, bucketVars>>

Do_RLock(t) ==
    /\ pc[t] = "Do_RLock"
    /\ CanRLock(keysMu)
    /\ keysMu' = [keysMu EXCEPT !.r = @ \cup {t}]
    /\ loc' = [loc EXCEPT ![t].atKeys = keys, ![t].atStore = Present(m), ![t].atM = m]
    /\ Goto(t, "Do_iter")
    /\ UNCHANGED <<heap, m, keys, bucketVars, ops, spawned, hist>>

\* for _, k := range v.keys { i, _ := v.m.Load(k); f(KeyValue{k, i.(Var)}) }
\* i.(Var) on a nil interface panics; the deferred RUnlock runs either way.
\* At the end of the walk the goroutine is at "Do_RUnlock".
Do_iter(t) ==
    /\ pc[t] = "Do_iter"
    /\ IF loc[t].j >= Len(keys)
       THEN /\ Goto(t, "Do_RUnlock")
            /\ UNCHANGED <<keysMu, loc>>
       ELSE LET k == keys[loc[t].j + 1]
                i == m[k]
            IN  IF i = Nil
                THEN /\ keysMu' = [keysMu EXCEPT !.r = @ \ {t}]
                     /\ Goto(t, "panic")
                     /\ UNCHANGED loc
                ELSE /\ loc' = [loc EXCEPT ![t] =
                                  Visitor([loc[t] EXCEPT !.j = @ + 1,
                                                         !.visited = Append(@, <<k, i>>)],
                                          heap, k, i)]
                     /\ UNCHANGED <<keysMu, pc>>
    /\ UNCHANGED <<heap, m, keys, bucketVars, ops, spawned, hist>>

\* (mutant) a walk that returns with the read lock still held
Do_RUnlock_KeepsLock(t) ==
    /\ pc[t] = "Do_RUnlock"
    /\ IF loc[t].op = "String"
       THEN /\ Goto(t, "String_ret")
            /\ loc' = [loc EXCEPT ![t].b = Append(@, Close)]
       ELSE Return(t)
    /\ UNCHANGED <<heap, m, keys, keysMu, bucketVars, ops, spawned, hist>>

\* the deferred v.keysMu.RUnlock() of a walk that reached its end; back in
\* Map.String, the "}" after v.Do
Do_RUnlock(t) ==
    /\ pc[t] = "Do_RUnlock"
    /\ keysMu' = [keysMu EXCEPT !.r = @ \ {t}]
    /\ IF loc[t].op = "String"
       THEN /\ Goto(t, "String_ret")
            /\ loc' = [loc EXCEPT ![t].b = Append(@, Close)]
       ELSE Return(t)
    /\ UNCHANGED <<heap, m, keys, bucketVars, ops, spawned, hist>>

\* return b.String(); the result stays in loc (b) until the next call
String_ret(t) ==
    /\ pc[t] = "String_ret"
    /\ pc' = [pc EXCEPT ![t] = "idle"]
    /\ loc' = [loc EXCEPT ![t] = [Args("String", Nil, Nil, 0) EXCEPT !.b = loc[t].b]]
    /\ UNCHANGED <<heap, mapVars, bucketVars, ops, spawned, hist>>

(***************************************************************************)
(* Bucket.Publish                                                          *)
(***************************************************************************)
RECURSIVE SortStrings(_)
\* sort.Strings
SortStrings(s) ==
    IF s = <<>> THEN <<>>
    ELSE LET rest == SortStrings(Tail(s))
             i == SearchStrings(rest, Head(s))
         IN  InsertAt(rest, i, Head(s))

\* the call: the goroutine is about to LoadOrStore
Publish(t, name, v) ==
    /\ Start(t)
    /\ Goto(t, "Publish_LoadOrStore")
    /\ loc' = [loc EXCEPT ![t] = Args("Publish", name, v, 0)]
    /\ UNCHANGED <<heap, mapVars, bucketVars>>

\* (mutant) Publish that stores over a registered name
Publish_LoadOrStore_Overwrites(t) ==
    /\ pc[t] = "Publish_LoadOrStore"
    /\ vars' = [vars EXCEPT ![loc[t].key] = loc[t].av]
    /\ loc' = [loc EXCEPT ![t].dup = FALSE]
    /\ Goto(t, "Publish_Lock")
    /\ hist' = [hist EXCEPT !.pubOK[loc[t].key] = @ + 1,
                            !.winner[loc[t].key] = loc[t].av]
    /\ UNCHANGED <<heap, mapVars, varKeys, varKeysMu, ops, spawned>>

\* if _, dup := m.vars.LoadOrStore(name, v); dup { log.Panicln(...) }
Publish_LoadOrStore(t) ==
    /\ pc[t] = "Publish_LoadOrStore"
    /\ IF vars[loc[t].key] = Nil
       THEN /\ vars' = [vars EXCEPT ![loc[t].key] = loc[t].av]
            /\ loc' = [loc EXCEPT ![t].dup = FALSE]
            /\ Goto(t, "Publish_Lock")
            /\ hist' = [hist EXCEPT !.pubOK[loc[t].key] = @ + 1,
                                    !.winner[loc[t].key] = loc[t].av]
       ELSE /\ vars' = vars
            /\ loc' = [loc EXCEPT ![t].dup = TRUE]
            /\ Goto(t, "panic")
            /\ hist' = [hist EXCEPT !.pubPanic[loc[t].key] = @ + 1]
    /\ UNCHANGED <<heap, mapVars, varKeys, varKeysMu, ops, spawned>>

\* m.varKeysMu.Lock(); m.varKeys = append(m.varKeys, name); sort.Strings(m.varKeys)
\* A typed constructor then returns v; the result stays in loc until the next call.
Publish_Lock(t) ==
    /\ pc[t] = "Publish_Lock"
    /\ CanLock(varKeysMu)
    /\ varKeys' = SortStrings(Append(varKeys, loc[t].key))
    /\ pc' = [pc EXCEPT ![t] = "idle"]
    /\ loc' = [loc EXCEPT ![t] =
                 IF loc[t].op = "Publish" THEN Loc0
                 ELSE [Args(loc[t].op, loc[t].key, Nil, 0) EXCEPT !.ret = loc[t].av]]
    /\ UNCHANGED <<heap, mapVars, vars, varKeysMu, ops, spawned, hist>>

(***************************************************************************)
(* Bucket.Get and the typed constructors                                   *)
(***************************************************************************)
BucketGet(name) == vars[name]

\* Get, called by a goroutine: one Load; the result stays in loc
GetVar(t, name) ==
    /\ Start(t)
    /\ loc' = [loc EXCEPT ![t] = [Args("Bucket.Get", name, Nil, 0) EXCEPT !.ret = BucketGet(name)]]
    /\ UNCHANGED <<heap, mapVars, bucketVars, pc>>

\* (mutant) a constructor that returns a new Var when the name is bound
NewVar_ReturnsNew(t, name, kind) ==
    /\ Start(t)
    /\ LET v == BucketGet(name)
           call == [Args(kind, name, Nil, 0) EXCEPT !.i = v]
       IN  /\ heap' = Append(heap, New0(kind))
           /\ IF v # Nil
              THEN /\ loc' = [loc EXCEPT ![t] = [call EXCEPT !.ret = Len(heap) + 1]]
                   /\ UNCHANGED pc
              ELSE /\ loc' = [loc EXCEPT ![t] = [call EXCEPT !.av = Len(heap) + 1]]
                   /\ Goto(t, "Publish_LoadOrStore")
    /\ UNCHANGED <<mapVars, bucketVars>>

\* (mutant) a constructor that returns the Var it finds without the type assertion
NewVar_NoAssert(t, name, kind) ==
    /\ Start(t)
    /\ LET v == BucketGet(name)
           call == [Args(kind, name, Nil, 0) EXCEPT !.i = v]
       IN  IF v # Nil
           THEN /\ loc' = [loc EXCEPT ![t] = [call EXCEPT !.ret = v]]
                /\ UNCHANGED <<pc, heap>>
           ELSE /\ heap' = Append(heap, New0(kind))
                /\ loc' = [loc EXCEPT ![t] = [call EXCEPT !.av = Len(heap) + 1]]
                /\ Goto(t, "Publish_LoadOrStore")
    /\ UNCHANGED <<mapVars, bucketVars>>

\* if v := m.Get(name); v != nil { return v.(*T) }; v := new(T); m.Publish(name, v)
\* v.(*T) panics when the Var is of another type.  (NewFloat makes its new Float
\* before the Get; a new Var that is not published gets no place in heap.)
NewVar(t, name, kind) ==
    /\ Start(t)
    /\ LET v == BucketGet(name)
           call == [Args(kind, name, Nil, 0) EXCEPT !.i = v]
       IN  IF v # Nil
           THEN /\ IF KindOf(v) = kind
                   THEN /\ loc' = [loc EXCEPT ![t] = [call EXCEPT !.ret = v]]
                        /\ UNCHANGED pc
                   ELSE /\ loc' = [loc EXCEPT ![t] = call]
                        /\ Goto(t, "panic")
                /\ UNCHANGED heap
           ELSE /\ heap' = Append(heap, New0(kind))
                /\ loc' = [loc EXCEPT ![t] = [call EXCEPT !.av = Len(heap) + 1]]
                /\ Goto(t, "Publish_LoadOrStore")
    /\ UNCHANGED <<mapVars, bucketVars>>

NewInt(t, name) == NewVar(t, name, "Int")

NewFloat(t, name) == NewVar(t, name, "Float")

NewString(t, name) == NewVar(t, name, "String")

NewMap(t, name) == NewVar(t, name, "Map")

BucketStep(t) == Publish_LoadOrStore(t) \/ Publish_Lock(t)

MapStep(t) ==
    \/ Set_LoadOrStore(t) \/ Set_Store(t) \/ addKey(t)
    \/ Add_LoadOrStore(t) \/ Add_apply(t)
    \/ AddFloat_LoadOrStore(t) \/ AddFloat_apply(t)
    \/ Float_Load(t) \/ Float_CAS(t)
    \/ Delete_Lock(t)
    \/ Init_Lock(t) \/ Init_Range(t)
    \/ Do_RLock(t) \/ Do_iter(t) \/ Do_RUnlock(t)

(***************************************************************************)
(* Spec: a Map, empty at first, on which any goroutine calls any           *)
(* operation with any arguments.                                           *)
(***************************************************************************)
SetVals == 1..Len(CallerVars)

Deltas == {1}

InitMap ==
    /\ heap = CallerVars
    /\ m = EmptyStore
    /\ keys = <<>>
    /\ keysMu = FreeMu
    /\ vars = EmptyStore
    /\ varKeys = <<>>
    /\ varKeysMu = FreeMu
    /\ pc = [t \in Threads |-> "idle"]
    /\ loc = [t \in Threads |-> Loc0]
    /\ ops = 0
    /\ spawned = 0
    /\ hist = Hist0

CallGet(t) == \E k \in Keys : Get(t, k) /\ UNCHANGED hist

CallSet(t) == \E k \in Keys, av \in SetVals : Set(t, k, av) /\ UNCHANGED hist

CallAdd(t) == \E k \in Keys, d \in Deltas : Add(t, k, d) /\ UNCHANGED hist

CallAddFloat(t) == \E k \in Keys, d \in Deltas : AddFloat(t, k, d) /\ UNCHANGED hist

CallDelete(t) == \E k \in Keys : Delete(t, k) /\ UNCHANGED hist

CallInit(t) == Init(t) /\ UNCHANGED hist

CallDo(t) == Do(t) /\ UNCHANGED hist

Next ==
    \E t \in Threads :
        \/ CallGet(t) \/ CallSet(t) \/ CallAdd(t) \/ CallAddFloat(t)
        \/ CallDelete(t) \/ CallInit(t) \/ CallDo(t)
        \/ MapStep(t)

Spec == InitMap /\ [][Next]_vars_

(***************************************************************************)
(* SpecSet: goroutines call only Set and Get.  hist records, per key, who  *)
(* called Set and with which Var.                                          *)
(***************************************************************************)
LoggedSet(t) ==
    \E k \in Keys, av \in SetVals :
        /\ Set(t, k, av)
        /\ hist' = [hist EXCEPT !.lastSet[k] = av,
                                !.writers[k] = @ \cup {t},
                                !.nSets[k] = @ + 1]

NextSet ==
    \E t \in Threads :
        \/ LoggedSet(t) \/ CallGet(t)
        \/ Set_LoadOrStore(t) \/ Set_Store(t) \/ addKey(t)

SpecSet == InitMap /\ [][NextSet]_vars_

(***************************************************************************)
(* SpecAdd: goroutines call only Add(key, 1).  hist.adds counts the calls. *)
(***************************************************************************)
AddOne(t) ==
    \E k \in Keys :
        /\ Add(t, k, 1)
        /\ hist' = [hist EXCEPT !.adds[k] = @ + 1]

NextAdd ==
    \E t \in Threads :
        \/ AddOne(t)
        \/ Add_LoadOrStore(t) \/ addKey(t) \/ Add_apply(t)

SpecAdd == InitMap /\ [][NextAdd]_vars_

(***************************************************************************)
(* SpecFloat: one Float, heap[1], with some first value, on which the      *)
(* goroutines call only Add.  hist.fSum is the sum of the deltas asked     *)
(* for.                                                                    *)
(***************************************************************************)
FloatInits == {0, 3}

FloatDeltas == {-1, 1, 2}

InitFloat ==
    \E f0 \in FloatInits :
        /\ heap = <<[kind |-> "Float", val |-> Float64bits(f0)]>>
        /\ m = EmptyStore
        /\ keys = <<>>
        /\ keysMu = FreeMu
        /\ vars = EmptyStore
        /\ varKeys = <<>>
        /\ varKeysMu = FreeMu
        /\ pc = [t \in Threads |-> "idle"]
        /\ loc = [t \in Threads |-> Loc0]
        /\ ops = 0
        /\ spawned = 0
        /\ hist = [Hist0 EXCEPT !.fInit = f0]

CallFloatAdd(t) ==
    \E d \in FloatDeltas :
        /\ FloatAdd(t, 1, d)
        /\ hist' = [hist EXCEPT !.fSum = @ + d]

NextFloat ==
    \E t \in Threads :
        \/ CallFloatAdd(t)
        \/ Float_Load(t) \/ Float_CAS(t)

SpecFloat == InitFloat /\ [][NextFloat]_vars_

(***************************************************************************)
(* SpecFloatLive: one Float, heap[1], on which the goroutines call Add and  *)
(* Set, MaxOps calls in all.  A goroutine that can take a step of its       *)
(* Float.Add takes it in the end (the scheduler runs every runnable         *)
(* goroutine).                                                              *)
(***************************************************************************)
FloatSetVals == {0, 2}

CountedFloatAdd(t) ==
    \E d \in FloatDeltas :
        /\ FloatAdd(t, 1, d)
        /\ hist' = [hist EXCEPT !.fSum = @ + d, !.fAdds = @ + 1]

CountedFloatSet(t) ==
    \E x \in FloatSetVals :
        /\ FloatSet(t, 1, x)
        /\ hist' = [hist EXCEPT !.fSets = @ + 1]

FloatStep(t) == Float_Load(t) \/ Float_CAS(t)

NextFloatLive ==
    \E t \in Threads :
        \/ CountedFloatAdd(t) \/ CountedFloatSet(t)
        \/ Float_Load(t) \/ Float_CAS(t)

SpecFloatLive ==
    /\ InitFloat
    /\ [][NextFloatLive]_vars_
    /\ \A t \in Threads : WF_vars_(FloatStep(t))

(***************************************************************************)
(* SpecBucket: a Bucket, empty at first, on which any goroutine calls      *)
(* Publish, Get and the typed constructors with any name.                  *)
(***************************************************************************)
CallPublish(t) == \E n \in Keys, v \in SetVals : Publish(t, n, v) /\ UNCHANGED hist

CallGetVar(t) == \E n \in Keys : GetVar(t, n) /\ UNCHANGED hist

CallNewInt(t) == \E n \in Keys : NewInt(t, n) /\ UNCHANGED hist

CallNewFloat(t) == \E n \in Keys : NewFloat(t, n) /\ UNCHANGED hist

CallNewString(t) == \E n \in Keys : NewString(t, n) /\ UNCHANGED hist

CallNewMap(t) == \E n \in Keys : NewMap(t, n) /\ UNCHANGED hist

NextBucket ==
    \E t \in Threads :
        \/ CallPublish(t) \/ CallGetVar(t)
        \/ CallNewInt(t) \/ CallNewFloat(t) \/ CallNewString(t) \/ CallNewMap(t)
        \/ BucketStep(t)

SpecBucket == InitMap /\ [][NextBucket]_vars_

(***************************************************************************)
(* SpecString: a Map on which the calls (Set, Add, Delete and String) run   *)
(* one after another, in any order and with any arguments.  The callers     *)
(* hold a String, an Int and a Func.                                        *)
(***************************************************************************)
StringVars == Append(CallerVars, [kind |-> "Func", val |-> "f"])

InitString ==
    /\ heap = StringVars
    /\ m = EmptyStore
    /\ keys = <<>>
    /\ keysMu = FreeMu
    /\ vars = EmptyStore
    /\ varKeys = <<>>
    /\ varKeysMu = FreeMu
    /\ pc = [t \in Threads |-> "idle"]
    /\ loc = [t \in Threads |-> Loc0]
    /\ ops = 0
    /\ spawned = 0
    /\ hist = Hist0

\* a call made when no other call is under way
SeqSet(t) ==
    /\ AllIdle
    /\ \E k \in Keys, av \in 1..Len(StringVars) : Set(t, k, av) /\ UNCHANGED hist

SeqAdd(t) == AllIdle /\ CallAdd(t)

SeqDelete(t) == AllIdle /\ CallDelete(t)

SeqString(t) == AllIdle /\ String(t) /\ UNCHANGED hist

NextString ==
    \E t \in Threads :
        \/ SeqSet(t) \/ SeqAdd(t) \/ SeqDelete(t) \/ SeqString(t)
        \/ Set_LoadOrStore(t) \/ Set_Store(t) \/ addKey(t)
        \/ Add_LoadOrStore(t) \/ Add_apply(t)
        \/ Delete_Lock(t)
        \/ Do_RLock(t) \/ Do_iter(t) \/ Do_RUnlock(t) \/ String_ret(t)

SpecString == InitString /\ [][NextString]_vars_

(***************************************************************************)
(* SpecLive: a Map and a Bucket on which any goroutine calls any operation, *)
(* MaxOps calls in all.  A goroutine that can take its next step (it is     *)
(* runnable, and the lock it asks for is free) takes it in the end.  The    *)
(* visitor of Do returns and calls nothing.                                 *)
(***************************************************************************)
Step(t) == MapStep(t) \/ BucketStep(t)

NextLive ==
    \E t \in Threads :
        \/ CallGet(t) \/ CallSet(t) \/ CallAdd(t) \/ CallAddFloat(t)
        \/ CallDelete(t) \/ CallInit(t) \/ CallDo(t) \/ CallPublish(t)
        \/ MapStep(t) \/ BucketStep(t)

SpecLive ==
    /\ InitMap
    /\ [][NextLive]_vars_
    /\ \A t \in Threads : WF_vars_(Step(t))

(***************************************************************************)
(* The claims                                                              *)
(***************************************************************************)
VisitedKeys(t) == [i \in 1..Len(loc[t].visited) |-> loc[t].visited[i][1]]

RECURSIVE SumDeltas(_)
\* the sum of the deltas of the goroutines in T
SumDeltas(T) ==
    IF T = {} THEN 0
    ELSE LET t == CHOOSE x \in T : TRUE
         IN  loc[t].delta + SumDeltas(T \ {t})

\* C1: once every call has completed, the key index holds exactly the keys of the
\* store.  (Refuted: Set racing with Delete or Init leaves the two apart.)
C1_IndexMatchesStore == AllIdle => Range(keys) = Present(m)

\* C2: a Do iteration never panics.  (Refuted: a key that Init took out of the store
\* between a Set's LoadOrStore and its addKey is in the index with no value.)
C2_DoNeverPanics == \A t \in Threads : ~(pc[t] = "panic" /\ loc[t].op = "Do")

\* C3: with only Add(key, 1) calls, the Int under each key plus the calls still in
\* flight on that key equals the number of Add(key, 1) calls made; once all calls
\* have completed the Int is exactly the number of calls.
C3_AddCountsEveryCall ==
    \A k \in Keys :
        LET inFlight == {t \in Threads : Busy(t) /\ loc[t].key = k}
            now == IF m[k] = Nil THEN 0 ELSE heap[m[k]].val
        IN  /\ m[k] # Nil => heap[m[k]].kind = "Int"
            /\ now + SumDeltas(inFlight) = hist.adds[k]

\* C3's case: two Add calls raced on an absent key, and the one that lost the
\* LoadOrStore holds the winner's Int
C3_Witness ==
    \E t1, t2 \in Threads :
        /\ t1 # t2
        /\ pc[t1] = "addKey" /\ pc[t2] = "Add_apply"
        /\ loc[t1].key = loc[t2].key
        /\ loc[t2].dup
        /\ loc[t2].i = m[loc[t2].key]

\* C4: with only Float.Add calls, the Float's value plus the deltas of the calls
\* still in flight equals its first value plus the sum of all deltas; once all
\* calls have returned the value is the first value plus the sum of the deltas.
C4_FloatAddLosesNothing ==
    Float64frombits(heap[1].val) + SumDeltas({t \in Threads : Busy(t)})
        = hist.fInit + hist.fSum

\* C4's case: a call is about to compare-and-swap against a word that another call
\* has changed since this one loaded it
C4_Witness ==
    \E t \in Threads :
        /\ pc[t] = "Float_CAS"
        /\ loc[t].cur # heap[1].val
        /\ hist.fSum # loc[t].delta

\* C5: a key new to the Map is put into the index exactly once: per key, the index
\* entries plus the goroutines about to call addKey are at most one, whoever is
\* about to call addKey has its Var in the store, and once all Set calls have
\* completed every key of the store is in the index once.
C5_KeyIndexedOnce ==
    \A k \in Keys :
        LET adding == {t \in Threads : pc[t] = "addKey" /\ loc[t].key = k}
        IN  /\ Count(keys, k) + Cardinality(adding) <= 1
            /\ Count(keys, k) + Cardinality(adding) = 1 <=> m[k] # Nil
            /\ AllIdle /\ m[k] # Nil => Count(keys, k) = 1

\* C5's case: two Set calls raced on a new key; one won and is about to call
\* addKey, the other lost and is about to overwrite the value
C5_Witness ==
    \E t1, t2 \in Threads :
        /\ t1 # t2
        /\ loc[t1].op = "Set" /\ loc[t2].op = "Set"
        /\ pc[t1] = "addKey" /\ pc[t2] = "Set_Store"
        /\ loc[t1].key = loc[t2].key
        /\ loc[t2].dup

\* C6: the keys a Do iteration has called its visitor with are strictly ascending
C6_DoAscending ==
    \A t \in Threads :
        loc[t].op = "Do" => IsSorted(VisitedKeys(t))

\* C6's case: a walk over two keys has reached its end
C6_Witness ==
    \E t \in Threads : pc[t] = "Do_RUnlock" /\ Len(loc[t].visited) >= 2

\* C7 as claimed: the keys a completed walk visited are the keys that were in the
\* store when Do took the read lock
C7_VisitedIsStoreAtLock ==
    \A t \in Threads :
        pc[t] = "Do_RUnlock" => Range(VisitedKeys(t)) = loc[t].atStore

\* C7 amended: the keys a walk visits are the keys of the key index as it stood when
\* Do took the read lock, in its order: the index does not change during the walk,
\* the walk has always visited a prefix of it, all of it when it reaches its end,
\* and a proper prefix when it panics
C7_VisitedIsIndexAtLock ==
    \A t \in Threads :
        (loc[t].op = "Do" /\ pc[t] \in {"Do_iter", "Do_RUnlock", "panic"}) =>
            /\ Len(loc[t].visited) <= Len(loc[t].atKeys)
            /\ VisitedKeys(t) = SubSeq(loc[t].atKeys, 1, Len(loc[t].visited))
            /\ pc[t] \in {"Do_iter", "Do_RUnlock"} => keys = loc[t].atKeys
            /\ pc[t] = "Do_RUnlock" => VisitedKeys(t) = loc[t].atKeys
            /\ pc[t] = "panic" => Len(loc[t].visited) < Len(loc[t].atKeys)

\* C7's case: a walk has reached its end, and the store held a key the index did not
\* when the walk took the lock
C7_Witness ==
    \E t \in Threads :
        /\ pc[t] = "Do_RUnlock"
        /\ loc[t].visited # <<>>
        /\ loc[t].atStore # Range(loc[t].atKeys)

\* C10: once all calls have completed, a key that one goroutine alone has written
\* holds the Var of that goroutine's latest Set
C10_GetReturnsLastSet ==
    AllIdle =>
        \A k \in Keys :
            Cardinality(hist.writers[k]) = 1 => MapGet(k) = hist.lastSet[k]

\* C10's case: two goroutines wrote a key each; one of them wrote its key twice,
\* the first time creating it
C10_Witness ==
    /\ AllIdle
    /\ \E k1, k2 \in Keys :
        /\ k1 # k2
        /\ Cardinality(hist.writers[k1]) = 1 /\ Cardinality(hist.writers[k2]) = 1
        /\ hist.writers[k1] # hist.writers[k2]
        /\ hist.nSets[k1] >= 2
        /\ MapGet(k1) = hist.lastSet[k1]

\* the typed constructors
Constructors == {"Int", "Float", "String", "Map"}

\* C8: of the Publish calls with one name exactly one registers its Var and every
\* other one panics; the name stays bound to the Var of the call that succeeded, and
\* the index holds the name once that call's append is done, and only once
C8_PublishOnce ==
    \A n \in Keys :
        LET appending == {t \in Threads : pc[t] = "Publish_Lock" /\ loc[t].key = n}
        IN  /\ hist.pubOK[n] <= 1
            /\ hist.pubPanic[n] > 0 => hist.pubOK[n] = 1
            /\ hist.pubOK[n] = 1 => BucketGet(n) = hist.winner[n]
            /\ hist.pubOK[n] = 0 => BucketGet(n) = Nil
            /\ Count(varKeys, n) + Cardinality(appending) = hist.pubOK[n]

\* C8's case: a second Publish with a registered name has panicked, after the first
\* had completed
C8_Witness ==
    \E n \in Keys, t \in Threads :
        /\ pc[t] = "panic" /\ loc[t].op = "Publish" /\ loc[t].key = n
        /\ loc[t].av # hist.winner[n]
        /\ Count(varKeys, n) = 1

\* what every state shows of C9: a typed constructor that has returned holds the
\* Var its name is bound to, of its own kind, so all handles for one name are the
\* one instance; the name is in the index once (counting an append still to come);
\* and a constructor panics only if it found a Var of another kind, or found none
\* and lost the race to publish
ConstructorsAgree ==
    /\ \A t \in Threads :
        /\ (pc[t] = "idle" /\ loc[t].op \in Constructors) =>
              /\ loc[t].ret # Nil
              /\ loc[t].ret = BucketGet(loc[t].key)
              /\ KindOf(loc[t].ret) = loc[t].op
        /\ (pc[t] = "panic" /\ loc[t].op \in Constructors) =>
              \/ loc[t].i # Nil /\ KindOf(loc[t].i) # loc[t].op
              \/ loc[t].i = Nil /\ loc[t].dup
    /\ \A n \in Keys :
        LET appending == {t \in Threads : pc[t] = "Publish_Lock" /\ loc[t].key = n}
        IN  Count(varKeys, n) + Cardinality(appending) = IF BucketGet(n) = Nil THEN 0 ELSE 1

\* a step in which goroutine t calls a constructor for a name bound to a Var of the
\* constructor's kind
FindsItsKind(t) ==
    /\ pc[t] = "idle"
    /\ loc'[t] # loc[t]
    /\ loc'[t].op \in Constructors
    /\ BucketGet(loc'[t].key) # Nil
    /\ KindOf(BucketGet(loc'[t].key)) = loc'[t].op

\* C9: a typed constructor called for a name bound to a Var of its kind returns that
\* Var in the one step and leaves the store and the key index as they are; and the
\* handles goroutines hold for a name are all the one instance bound to it
C9_ConstructorsIdempotent ==
    /\ []ConstructorsAgree
    /\ [][\A t \in Threads :
            FindsItsKind(t) =>
                /\ pc'[t] = "idle"
                /\ loc'[t].ret = BucketGet(loc'[t].key)
                /\ vars' = vars
                /\ varKeys' = varKeys]_vars_

\* C9's case: two goroutines hold the handle of one name; one of them got it from a
\* call that found the name bound
C9_Witness ==
    \E t1, t2 \in Threads :
        /\ t1 # t2
        /\ pc[t1] = "idle" /\ pc[t2] = "idle"
        /\ loc[t1].op \in Constructors /\ loc[t2].op = loc[t1].op
        /\ loc[t1].key = loc[t2].key
        /\ loc[t1].i = Nil /\ loc[t2].i # Nil
        /\ loc[t1].ret = loc[t2].ret

\* C11: Init clears the Map atomically: while an Init is under way no key that was in
\* the store before it is gone while another such key still holds the Var it held
\* before.  (Refuted: Init deletes the keys of the store one by one and Get takes
\* no lock, so a Get sees the Map half cleared.)
C11_InitAtomic ==
    \A t \in Threads :
        pc[t] = "Init_Range" =>
            \A k1, k2 \in Present(loc[t].atM) :
                ~(MapGet(k1) = Nil /\ MapGet(k2) = loc[t].atM[k2])

\* the kind of Var Add and AddFloat add to
AddsTo(op) == IF op = "Add" THEN "Int" ELSE "Float"

\* C12: Add on a key that holds a Var that is not an Int, and AddFloat on a key that
\* holds a Var that is not a Float, do nothing: the call finds the Var (one Load),
\* goes straight to its type test and returns from it, never panics, and neither
\* step changes any Var, the store or the key index
C12_AddMismatchNoOp ==
    [][\A t \in Threads :
        /\ (/\ pc[t] = "idle" /\ pc'[t] # "idle"
            /\ loc'[t].op \in {"Add", "AddFloat"}
            /\ m[loc'[t].key] # Nil
            /\ KindOf(m[loc'[t].key]) # AddsTo(loc'[t].op))
           => /\ pc'[t] = (IF loc'[t].op = "Add" THEN "Add_apply" ELSE "AddFloat_apply")
              /\ loc'[t].i = m[loc'[t].key]
              /\ heap' = heap /\ m' = m /\ keys' = keys
        /\ (/\ pc[t] \in {"Add_apply", "AddFloat_apply"} /\ pc'[t] # pc[t]
            /\ KindOf(loc[t].i) # AddsTo(loc[t].op))
           => /\ pc'[t] = "idle"
              /\ heap' = heap /\ m' = m /\ keys' = keys]_vars_

\* C12's case: an Add has found a String under its key, still in the store, and is at
\* its type test
C12_Witness ==
    \E t \in Threads :
        /\ pc[t] = "Add_apply"
        /\ KindOf(loc[t].i) = "String"
        /\ m[loc[t].key] = loc[t].i

\* C13: Delete of a key that is not present (Get returns nil for it) does nothing:
\* when such a Delete gets the lock, the key index and the store it leaves are the
\* ones it found.  (Refuted: a key that Init took out of the store between a Set's
\* LoadOrStore and its addKey is in the index with no value, and Delete takes it
\* out of the index.)
C13_DeleteAbsentNoOp ==
    \A t \in Threads :
        (pc[t] = "Delete_Lock" /\ CanLock(keysMu) /\ MapGet(loc[t].key) = Nil) =>
            DeleteFrom(keys, m, loc[t].key) = <<keys, m>>

\* a step in which goroutine t calls a constructor for a name bound to a Var of
\* another kind
FindsOtherKind(t) ==
    /\ pc[t] = "idle"
    /\ loc'[t] # loc[t]
    /\ loc'[t].op \in Constructors
    /\ BucketGet(loc'[t].key) # Nil
    /\ KindOf(BucketGet(loc'[t].key)) # loc'[t].op

\* C14: a typed constructor called for a name bound to a Var of another kind panics
\* in that step (the failed type assertion), holds no handle then or later, and
\* leaves the store and the key index as they are: the name stays bound to the Var
\* it was bound to
C14_MismatchIsFatal ==
    /\ [][\A t \in Threads :
            FindsOtherKind(t) =>
                /\ pc'[t] = "panic"
                /\ loc'[t].ret = Nil
                /\ vars' = vars
                /\ varKeys' = varKeys]_vars_
    /\ [][\A t \in Threads :
            (pc[t] = "panic" /\ loc[t].op \in Constructors) =>
                (pc'[t] = "panic" /\ loc'[t] = loc[t] /\ loc[t].ret = Nil)]_vars_

\* C14's case: a constructor has panicked on a registered Var of another kind, which
\* is still the Var bound to the name
C14_Witness ==
    \E t \in Threads :
        /\ pc[t] = "panic" /\ loc[t].op \in Constructors
        /\ loc[t].i # Nil /\ KindOf(loc[t].i) # loc[t].op
        /\ BucketGet(loc[t].key) = loc[t].i
        /\ Count(varKeys, loc[t].key) = 1

RECURSIVE SortedKeys(_)
\* the keys of S in ascending order
SortedKeys(S) ==
    IF S = {} THEN <<>>
    ELSE LET k == CHOOSE x \in S : \A y \in S : x <= y
         IN  <<k>> \o SortedKeys(S \ {k})

RECURSIVE Join(_)
\* the items with one separator between neighbours
Join(items) ==
    IF Len(items) <= 1 THEN items
    ELSE <<Head(items), Sep>> \o Join(Tail(items))

\* the rendering of a sequence of keys with the Vars of store: the items of the
\* entries that serialize, joined, in braces
Rendering(ks, store) ==
    LET ok == SelectSeq(ks, LAMBDA k : ~Marshal(heap, store[k]).err)
    IN  <<Open>> \o Join([i \in 1..Len(ok) |-> Item(ok[i], Marshal(heap, store[ok[i]]).text)])
            \o <<Close>>

Serializes(k) == m[k] # Nil /\ ~Marshal(heap, m[k]).err

\* C15: whatever the order of the Set and Add calls that put the keys in, the index
\* String walks is the ascending sequence of the keys of the store, and when every
\* entry serializes (C16 is about those that do not) the text String returns is
\* one item per key in that order, one ", " between neighbours, in braces
C15_StringSortedAnyOrder ==
    \A t \in Threads :
        pc[t] = "String_ret" =>
            /\ keys = SortedKeys(Present(m))
            /\ (\A k \in Present(m) : Serializes(k)) =>
                  /\ loc[t].b = Rendering(SortedKeys(Present(m)), m)
                  /\ Len(loc[t].b) = 2 + Cardinality(Present(m))
                        + (IF Present(m) = {} THEN 0 ELSE Cardinality(Present(m)) - 1)

\* C15's case: String is about to return the text of a Map of two keys, the greater
\* of them put in first, by an Add (its Int is the older object)
C15_Witness ==
    \E t \in Threads, k1, k2 \in Keys :
        /\ pc[t] = "String_ret"
        /\ k1 < k2
        /\ m[k1] > m[k2] /\ m[k2] > Len(StringVars)
        /\ loc[t].b = <<Open, Item(k1, <<"Int", heap[m[k1]].val>>), Sep,
                        Item(k2, <<"Int", heap[m[k2]].val>>), Close>>

\* C16: the text String returns is the rendering of the Map without the entries
\* that fail to serialize.  (Refuted: the visitor writes the ", " before it tries to
\* marshal the value, so a failing entry after a rendered one leaves a separator
\* behind.)
C16_FailedValueOmitted ==
    \A t \in Threads :
        pc[t] = "String_ret" => loc[t].b = Rendering(SortedKeys(Present(m)), m)

\* where a Set, Add or AddFloat is once it has found its key in the store
PastTheIndex == {"Set_Store", "Add_apply", "AddFloat_apply", "Float_Load", "Float_CAS"}

\* C17: while a walk holds the read lock, a Set, Add or AddFloat that found its key
\* in the store can take its next step (it waits for nothing), it goes from the Load
\* straight to the store or to the Var and from there to its return without ever
\* coming to addKey, and the Var the visitor is called with for a key is the one the
\* store holds when the walk reaches the key
C17_ExistingValuesUnblocked ==
    /\ [](\A t \in Threads :
            (pc[t] \in PastTheIndex /\ keysMu.r # {}) =>
                ENABLED (Set_Store(t) \/ Add_apply(t) \/ AddFloat_apply(t)
                            \/ Float_Load(t) \/ Float_CAS(t)))
    /\ [][\A t \in Threads :
            /\ (/\ pc[t] = "idle" /\ pc'[t] # "idle"
                /\ loc'[t].op \in {"Set", "Add", "AddFloat"}
                /\ m[loc'[t].key] # Nil)
               => pc'[t] \in PastTheIndex
            /\ pc[t] \in PastTheIndex => pc'[t] \in PastTheIndex \cup {"idle"}
            /\ Len(loc'[t].visited) = Len(loc[t].visited) + 1
               => LET e == loc'[t].visited[Len(loc'[t].visited)]
                  IN  e[2] = m[e[1]]]_vars_

\* C17's case: a walk has called its visitor with a Var that a Set put under the key
\* after the walk took the read lock
C17_Witness ==
    \E t \in Threads :
        /\ loc[t].op = "Do" /\ pc[t] \in {"Do_iter", "Do_RUnlock"}
        /\ \E i \in 1..Len(loc[t].visited) :
            LET e == loc[t].visited[i]
            IN  loc[t].atM[e[1]] # Nil /\ loc[t].atM[e[1]] # e[2]

\* the writes to the Float made so far: the Set calls and the Add calls that have
\* returned
FloatWrites == hist.fSets + hist.fAdds - Cardinality({t \in Threads : Busy(t)})

\* C18: with MaxOps Add and Set calls on one Float and every runnable goroutine
\* scheduled in the end, every Add returns; a compare-and-swap fails only when the
\* word is no longer the one the call loaded; and the failed compare-and-swaps of a
\* call are at most the writes the other calls have made
C18_FloatAddConverges ==
    /\ \A t \in Threads : (pc[t] \in {"Float_Load", "Float_CAS"}) ~> (pc[t] = "idle")
    /\ [][\A t \in Threads :
            (pc[t] = "Float_CAS" /\ pc'[t] = "Float_Load") =>
                heap[loc[t].i].val # loc[t].cur]_vars_
    /\ [](\A t \in Threads : Busy(t) => loc[t].tries <= FloatWrites)

\* C18's case: an Add whose compare-and-swap failed after another call's write has
\* loaded the word again and is about to swap it
C18_Witness ==
    \E t \in Threads :
        /\ pc[t] = "Float_CAS"
        /\ loc[t].tries >= 1
        /\ loc[t].cur = heap[loc[t].i].val
        /\ hist.fSets >= 1

\* C19: no operation waits for ever: every call that is under way comes to its end,
\* its return or (a duplicate Publish, a Do that meets a key without a value) its
\* panic, whichever goroutines hold the read lock and whichever wait for the lock
C19_NoCallBlocksForever ==
    \A t \in Threads : Busy(t) ~> ~Busy(t)

\* C19's case: a goroutine waits for the exclusive lock while a walk holds the read
\* lock
C19_Witness ==
    \E t1, t2 \in Threads :
        /\ pc[t1] = "Do_iter" /\ t1 \in keysMu.r
        /\ pc[t2] \in {"addKey", "Delete_Lock", "Init_Lock"}
        /\ ~CanLock(keysMu)

\* C20: when two goroutines call the same typed constructor with the same name and
\* both find the name unregistered, neither panics, and once both have returned
\* they hold the same instance.  (Refuted: both go on to Publish, the second
\* LoadOrStore finds the name taken and panics.)
C20_RacingConstructorsAgree ==
    \A t1, t2 \in Threads :
        (/\ t1 # t2
         /\ loc[t1].op \in Constructors /\ loc[t2].op = loc[t1].op
         /\ loc[t1].key = loc[t2].key
         /\ loc[t1].i = Nil /\ loc[t2].i = Nil)
        => /\ pc[t1] # "panic" /\ pc[t2] # "panic"
           /\ (pc[t1] = "idle" /\ pc[t2] = "idle") => loc[t1].ret = loc[t2].ret

====
